---- MODULE Spec2Model ----
(***************************************************************************)
(* Console RAG chatbot: the command loop of main.py, the session store and *)
(* its JSON persistence (utils.py), document ingestion and the             *)
(* conversational chain (rag_core.py).                                     *)
(*                                                                         *)
(* Strings the program concatenates are modelled as sequences of tokens;   *)
(* the empty string is the empty sequence.  The durable session file is    *)
(* modelled by what json.load sees in it: absent, not parseable, a JSON    *)
(* value that is not an array, or an array of elements whose "type" and    *)
(* "content" fields may be missing; "fmt" records the layout of the bytes. *)
(***************************************************************************)
EXTENDS Integers, Sequences, FiniteSets, TLC

\* ------------------------------------------------------------- bounds
\* Longest transcript a run may build (guards the respond turns).
MaxMsgs == 4
\* Longest array found in the durable file when the first process starts.
MaxFileLen == 2
\* Number of process restarts explored.
MaxRestarts == 1

\* ------------------------------------------------------------- values
session_id == "user_session_id_v1"

None == "None"
Missing == "<missing>"

Questions == {"q1", "q2"}
Answers == {"a1"}

\* What the first process may find at chat_history/<session_id>.json.
\* Elements of its array: a well-formed one, one of a type the program does
\* not replay, one without "content" and one without "type".  (Arrays with
\* "ai" elements are those an earlier process saved.)
FileElems ==
    { [type |-> "human", content |-> "q1"],
      [type |-> "system", content |-> "q1"],
      [type |-> "human", content |-> Missing],
      [type |-> Missing, content |-> "q1"] }

RECURSIVE SeqsUpTo(_, _)
SeqsUpTo(S, n) ==
    IF n = 0 THEN {<<>>}
    ELSE LET shorter == SeqsUpTo(S, n - 1)
         IN shorter \cup {Append(s, e) : s \in {t \in shorter : Len(t) = n - 1}, e \in S}

\* No store miss has read the file yet.
NotLoaded == [kind |-> "unread", entries |-> <<>>, fmt |-> "none"]
AbsentFile == [kind |-> "absent", entries |-> <<>>, fmt |-> "none"]
NotJsonFile == [kind |-> "notjson", entries |-> <<>>, fmt |-> "other"]
TruncatedFile == [kind |-> "notjson", entries |-> <<>>, fmt |-> "partial"]
NotArrayFile == [kind |-> "object", entries |-> <<>>, fmt |-> "other"]
ArrayFile(es, fmt) == [kind |-> "array", entries |-> es, fmt |-> fmt]

InitialFiles ==
    {AbsentFile, NotJsonFile, NotArrayFile}
        \cup {ArrayFile(es, "other") : es \in SeqsUpTo(FileElems, MaxFileLen)}

\* Documents the user may name in /load.
Paths ==
    { [stem |-> "a", ext |-> ".txt", exists |-> TRUE],
      [stem |-> "b", ext |-> ".pdf", exists |-> TRUE],
      [stem |-> "report", ext |-> ".xlsx", exists |-> TRUE],
      [stem |-> "missing", ext |-> ".txt", exists |-> FALSE] }

\* What the parsers and the embedding service do during one ingestion.
IngestEnvs == {"ok", "import_error", "quota_exceeded", "other_error"}

\* Outcome of the write in save_session_history.
WriteOutcomes == {"ok", "open_fails", "write_fails"}

QuitWords == {"quit", "EXIT", "eof"}

VARIABLES
    pc,             \* position of main: "start", "loop", "ingested", "done"
    apiKey,         \* GOOGLE_API_KEY is in the environment
    store,          \* utils.store: session id -> messages
    file,           \* chat_history/<session_id>.json
    holder,         \* retriever_holder.retriever
    new_retriever,  \* main's new_retriever, between ingest and install
    loaded,         \* the file as get_session_history found it on the store miss
    lastLoad,       \* how the latest /load command of this process ended
    lastIngest,     \* how the latest load_and_process_document call ended
    last,           \* the latest command and what it printed
    writeFailed,    \* a write of save_session_history has failed in this process
    restarts        \* processes started after the first

vars ==
    <<pc, apiKey, store, file, holder, new_retriever, loaded, lastLoad, lastIngest, last,
      writeFailed, restarts>>

\* ------------------------------------------------------------- utils.py
DummyRetriever == [kind |-> "Dummy", doc |-> None]
\* Python's None where a retriever is expected.
NoRetriever == [kind |-> "None", doc |-> None]
NoHolder == [kind |-> "Unset", doc |-> None]

HumanMessage(c) == [cls |-> "HumanMessage", content |-> c]
AIMessage(c) == [cls |-> "AIMessage", content |-> c]

\* The "type" attribute of a message object.
MsgType(m) == IF m.cls = "HumanMessage" THEN "human" ELSE "ai"

EmptyStore == [s \in {} |-> <<>>]

\* (variant: both branches build a HumanMessage)
RECURSIVE ReplayFrom_AllHuman(_, _, _)
ReplayFrom_AllHuman(data, i, history) ==
    IF i > Len(data) THEN history
    ELSE LET message_data == data[i] IN
         IF message_data.type = Missing THEN history
         ELSE IF message_data.type \in {"human", "ai"}
              THEN IF message_data.content = Missing THEN history
                   ELSE ReplayFrom_AllHuman(data, i + 1,
                            Append(history, HumanMessage(message_data.content)))
              ELSE ReplayFrom_AllHuman(data, i + 1, history)

\* The loop over the parsed array: an element without "type", or a human/ai
\* element without "content", raises inside the try;
\* the messages added so far stay in the history object.
RECURSIVE ReplayFrom(_, _, _)
ReplayFrom(data, i, history) ==
    IF i > Len(data) THEN history
    ELSE LET message_data == data[i] IN
         IF message_data.type = Missing THEN history
         ELSE IF message_data.type \in {"human", "ai"}
              THEN IF message_data.content = Missing THEN history
                   ELSE ReplayFrom(data, i + 1,
                            Append(history,
                                IF message_data.type = "human"
                                THEN HumanMessage(message_data.content)
                                ELSE AIMessage(message_data.content)))
              ELSE ReplayFrom(data, i + 1, history)

\* The history object built on a store miss.
ReadHistoryFile(f) ==
    IF f.kind = "array" THEN ReplayFrom(f.entries, 1, <<>>) ELSE <<>>

\* The store after get_session_history(sid); its result is the entry of sid.
get_session_history(st, f, sid) ==
    IF sid \in DOMAIN st THEN st ELSE (sid :> ReadHistoryFile(f)) @@ st

\* (variant: the class name is written as the type)
serializable_history_ClassName(history) ==
    [i \in 1..Len(history) |-> [type |-> history[i].cls, content |-> history[i].content]]

serializable_history(history) ==
    [i \in 1..Len(history) |-> [type |-> MsgType(history[i]), content |-> history[i].content]]

\* (variant: an empty history is not written)
save_session_history_SkipsEmpty(st, f, sid, w) ==
    IF sid \notin DOMAIN st \/ st[sid] = <<>> THEN f
    ELSE CASE w = "ok" -> ArrayFile(serializable_history(st[sid]), "indent4")
           [] w = "open_fails" -> f
           [] w = "write_fails" -> TruncatedFile

\* (variant: no test that the session is in the store)
save_session_history_NoGuard(st, f, sid, w) ==
    LET history == IF sid \in DOMAIN st THEN st[sid] ELSE <<>> IN
    CASE w = "ok" -> ArrayFile(serializable_history(history), "indent4")
      [] w = "open_fails" -> f
      [] w = "write_fails" -> TruncatedFile

\* The file after save_session_history(sid) when the write ends as w.
save_session_history(st, f, sid, w) ==
    IF sid \notin DOMAIN st THEN f
    ELSE CASE w = "ok" -> ArrayFile(serializable_history(st[sid]), "indent4")
           [] w = "open_fails" -> f
           [] w = "write_fails" -> TruncatedFile

\* (variant: the write is not inside a try)
save_raises_NoExcept(st, sid, w) == sid \in DOMAIN st /\ w # "ok"

\* Whether an exception leaves save_session_history(sid): the except clause
\* around the write catches every Exception and prints it.
save_raises(st, sid, w) == FALSE

\* Whether the write of save_session_history(sid) is attempted and fails.
write_fails(st, sid, w) == sid \in DOMAIN st /\ w # "ok"

\* user_input.lower() for the words typed at the prompt.
lower(word) == IF word = "EXIT" THEN "exit" ELSE word

\* ------------------------------------------------------------- rag_core.py
SupportedExts == {".pdf", ".txt", ".docx", ".csv"}

Grounded(path) == [kind |-> "Grounded", doc |-> path.stem]

\* (variant: only ImportError is caught)
load_and_process_document_ImportOnly(path, env) ==
    IF path.ext \notin SupportedExts
    THEN [value |-> NoRetriever, raised |-> FALSE, steps |-> <<>>, printed |-> "unsupported format"]
    ELSE CASE env = "ok" ->
                [value |-> Grounded(path), raised |-> FALSE,
                 steps |-> <<"loader", "load", "split", "embed", "index">>,
                 printed |-> "chunks"]
           [] env = "import_error" ->
                [value |-> NoRetriever, raised |-> FALSE, steps |-> <<"loader">>,
                 printed |-> IF path.ext \in {".pdf", ".csv"} THEN "install pypdf"
                             ELSE IF path.ext = ".docx" THEN "install unstructured"
                             ELSE "import error"]
           [] env = "quota_exceeded" ->
                [value |-> NoRetriever, raised |-> TRUE,
                 steps |-> <<"loader", "load", "split", "embed">>,
                 printed |-> "traceback"]
           [] env = "other_error" ->
                [value |-> NoRetriever, raised |-> TRUE, steps |-> <<"loader", "load">>,
                 printed |-> "traceback"]

\* (variant: the quota message is not recognised)
load_and_process_document_QuotaUnnoticed(path, env) ==
    IF path.ext \notin SupportedExts
    THEN [value |-> NoRetriever, raised |-> FALSE, steps |-> <<>>, printed |-> "unsupported format"]
    ELSE CASE env = "ok" ->
                [value |-> Grounded(path), raised |-> FALSE,
                 steps |-> <<"loader", "load", "split", "embed", "index">>,
                 printed |-> "chunks"]
           [] env = "import_error" ->
                [value |-> NoRetriever, raised |-> FALSE, steps |-> <<"loader">>,
                 printed |-> IF path.ext \in {".pdf", ".csv"} THEN "install pypdf"
                             ELSE IF path.ext = ".docx" THEN "install unstructured"
                             ELSE "import error"]
           [] env = "quota_exceeded" ->
                [value |-> NoRetriever, raised |-> FALSE,
                 steps |-> <<"loader", "load", "split", "embed">>,
                 printed |-> "error"]
           [] env = "other_error" ->
                [value |-> NoRetriever, raised |-> FALSE, steps |-> <<"loader", "load">>,
                 printed |-> "error"]

\* value is what the function returns, raised whether an exception leaves it,
\* steps what it did to the document, printed the diagnosis it printed.
load_and_process_document(path, env) ==
    IF path.ext \notin SupportedExts
    THEN [value |-> NoRetriever, raised |-> FALSE, steps |-> <<>>, printed |-> "unsupported format"]
    ELSE CASE env = "ok" ->
                [value |-> Grounded(path), raised |-> FALSE,
                 steps |-> <<"loader", "load", "split", "embed", "index">>,
                 printed |-> "chunks"]
           [] env = "import_error" ->
                [value |-> NoRetriever, raised |-> FALSE, steps |-> <<"loader">>,
                 printed |-> IF path.ext \in {".pdf", ".csv"} THEN "install pypdf"
                             ELSE IF path.ext = ".docx" THEN "install unstructured"
                             ELSE "import error"]
           [] env = "quota_exceeded" ->
                [value |-> NoRetriever, raised |-> FALSE,
                 steps |-> <<"loader", "load", "split", "embed">>,
                 printed |-> "quota"]
           [] env = "other_error" ->
                [value |-> NoRetriever, raised |-> FALSE, steps |-> <<"loader", "load">>,
                 printed |-> "error"]

Separator == "\n\n"

RECURSIVE format_docs(_)
format_docs(docs) ==
    IF docs = <<>> THEN <<>>
    ELSE IF Len(docs) = 1 THEN <<docs[1]>>
    ELSE <<docs[1], Separator>> \o format_docs(Tail(docs))

\* Text of the chunks the splitter makes of each document.
ChunkTexts == [a |-> <<"a#1", "a#2">>, b |-> <<"b#1", "b#2">>]

\* retriever.invoke(question): no document from the DummyRetriever, the
\* chunks nearest to the question, nearest first, from an index.
RetrieverInvoke(retriever, question) ==
    IF retriever.kind = "Grounded"
    THEN LET t == ChunkTexts[retriever.doc]
         IN IF question = "q1" THEN <<t[1]>> ELSE <<t[2], t[1]>>
    ELSE <<>>

\* (variant: the retriever of the time the chain was built is used)
dynamic_retrieval_Captured(retriever, question) ==
    format_docs(RetrieverInvoke(DummyRetriever, question))

dynamic_retrieval(retriever, question) == format_docs(RetrieverInvoke(retriever, question))

\* (variant: the output message is added before the input message)
AddTurn_AnswerFirst(history, question, answer) ==
    history \o <<AIMessage(answer), HumanMessage(question)>>

\* RunnableWithMessageHistory on a successful run of the chain: the input
\* message, then the output message, are added to the session's history.
AddTurn(history, question, answer) ==
    history \o <<HumanMessage(question), AIMessage(answer)>>

\* ------------------------------------------------------------- main.py
\* No context string was assembled.
NoContext == <<"<none>">>

NoPath == [stem |-> None, ext |-> None, exists |-> FALSE]

NoCommand == [cmd |-> "none", ok |-> TRUE, q |-> None, answer |-> None, context |-> NoContext,
              path |-> NoPath, steps |-> <<>>, printed |-> None]

Said(cmd, ok, q, answer, context, printed) ==
    [cmd |-> cmd, ok |-> ok, q |-> q, answer |-> answer, context |-> context,
     path |-> NoPath, steps |-> <<>>, printed |-> printed]

Init ==
    /\ pc = "start"
    /\ apiKey \in BOOLEAN
    /\ store = EmptyStore
    /\ file \in InitialFiles
    /\ holder = NoHolder
    /\ new_retriever = NoRetriever
    /\ loaded = NotLoaded
    /\ lastLoad = "none"
    /\ lastIngest = "none"
    /\ last = NoCommand
    /\ writeFailed = FALSE
    /\ restarts = 0

\* Lines 27-29: without the key main returns before anything is built.
StartupFatal ==
    /\ pc = "start"
    /\ ~apiKey
    /\ pc' = "done"
    /\ last' = Said("startup", FALSE, None, None, NoContext, "FATAL ERROR")
    /\ UNCHANGED <<apiKey, store, file, holder, new_retriever, loaded, lastLoad, lastIngest,
                   writeFailed, restarts>>

\* (variant: the holder is built without a retriever)
Startup_NoRetriever ==
    /\ pc = "start"
    /\ apiKey
    /\ holder' = NoRetriever
    /\ pc' = "loop"
    /\ last' = Said("startup", TRUE, None, None, NoContext, "ready")
    /\ UNCHANGED <<apiKey, store, file, new_retriever, loaded, lastLoad, lastIngest,
                   writeFailed, restarts>>

\* Lines 31-49.
Startup ==
    /\ pc = "start"
    /\ apiKey
    /\ holder' = DummyRetriever
    /\ pc' = "loop"
    /\ last' = Said("startup", TRUE, None, None, NoContext, "ready")
    /\ UNCHANGED <<apiKey, store, file, new_retriever, loaded, lastLoad, lastIngest,
                   writeFailed, restarts>>

\* (variant: the loop is left without saving)
Quit_NoSave(word, w) ==
    /\ pc = "loop"
    /\ lower(IF word = "eof" THEN "quit" ELSE word) \in {"quit", "exit"}
    /\ pc' = "done"
    /\ last' = Said("quit", TRUE, word, None, NoContext, "Exiting")
    /\ UNCHANGED <<apiKey, store, file, holder, new_retriever, loaded, lastLoad, lastIngest,
                   writeFailed, restarts>>

\* Lines 53-60: quit, exit (in any case) or end of input.  The save is
\* outside any try of main: an exception leaving it would end the process
\* with a traceback.
Quit(word, w) ==
    /\ pc = "loop"
    /\ lower(IF word = "eof" THEN "quit" ELSE word) \in {"quit", "exit"}
    /\ file' = save_session_history(store, file, session_id, w)
    /\ writeFailed' = (writeFailed \/ write_fails(store, session_id, w))
    /\ pc' = "done"
    /\ last' = Said("quit", TRUE, word, None, NoContext,
                    IF save_raises(store, session_id, w) THEN "traceback"
                    ELSE IF write_fails(store, session_id, w) THEN "Error saving history"
                    ELSE "Exiting")
    /\ UNCHANGED <<apiKey, store, holder, new_retriever, loaded, lastLoad, lastIngest,
                   restarts>>

\* (variant: a missing file switches back to general chat)
LoadNotFound_ResetsSlot(path) ==
    /\ pc = "loop"
    /\ ~path.exists
    /\ last' = [Said("load", FALSE, None, None, NoContext, "File not found")
                   EXCEPT !.path = path]
    /\ lastLoad' = "notfound"
    /\ holder' = DummyRetriever
    /\ UNCHANGED <<pc, apiKey, store, file, new_retriever, loaded, lastIngest,
                   writeFailed, restarts>>

\* Lines 62-71.
LoadNotFound(path) ==
    /\ pc = "loop"
    /\ ~path.exists
    /\ last' = [Said("load", FALSE, None, None, NoContext, "File not found")
                   EXCEPT !.path = path]
    /\ lastLoad' = "notfound"
    /\ UNCHANGED <<pc, apiKey, store, file, holder, new_retriever, loaded, lastIngest,
                   writeFailed, restarts>>

\* Lines 62-73: the call of load_and_process_document.  The call is outside
\* any try of main: an exception leaving it would end the process.
LoadIngest(path, env) ==
    /\ pc = "loop"
    /\ path.exists
    /\ LET r == load_and_process_document(path, env) IN
         /\ new_retriever' = r.value
         /\ last' = [Said("ingest", r.value # NoRetriever, None, None, NoContext, r.printed)
                        EXCEPT !.path = path, !.steps = r.steps]
         /\ lastIngest' = IF r.value # NoRetriever THEN "ok" ELSE "failed"
         /\ pc' = IF r.raised THEN "done" ELSE "ingested"
    /\ UNCHANGED <<apiKey, store, file, holder, loaded, lastLoad, writeFailed, restarts>>

\* (variant: a failed load leaves the holder alone)
LoadInstall_KeepsOld ==
    /\ pc = "ingested"
    /\ holder' = IF new_retriever # NoRetriever THEN new_retriever ELSE holder
    /\ lastLoad' = IF new_retriever # NoRetriever THEN "ok" ELSE "failed"
    /\ last' = Said("load", new_retriever # NoRetriever, None, None, NoContext,
                    IF new_retriever # NoRetriever THEN "RAG MODE ACTIVATED"
                    ELSE "RAG MODE FAILED")
    /\ new_retriever' = NoRetriever
    /\ pc' = "loop"
    /\ UNCHANGED <<apiKey, store, file, loaded, lastIngest, writeFailed, restarts>>

\* (variant: the result is installed without testing it)
LoadInstall_InstallsAlways ==
    /\ pc = "ingested"
    /\ holder' = new_retriever
    /\ lastLoad' = IF new_retriever # NoRetriever THEN "ok" ELSE "failed"
    /\ last' = Said("load", new_retriever # NoRetriever, None, None, NoContext,
                    IF new_retriever # NoRetriever THEN "RAG MODE ACTIVATED"
                    ELSE "RAG MODE FAILED")
    /\ new_retriever' = NoRetriever
    /\ pc' = "loop"
    /\ UNCHANGED <<apiKey, store, file, loaded, lastIngest, writeFailed, restarts>>

\* Lines 75-87.
LoadInstall ==
    /\ pc = "ingested"
    /\ holder' = IF new_retriever # NoRetriever THEN new_retriever ELSE DummyRetriever
    /\ lastLoad' = IF new_retriever # NoRetriever THEN "ok" ELSE "failed"
    /\ last' = Said("load", new_retriever # NoRetriever, None, None, NoContext,
                    IF new_retriever # NoRetriever THEN "RAG MODE ACTIVATED"
                    ELSE "RAG MODE FAILED")
    /\ new_retriever' = NoRetriever
    /\ pc' = "loop"
    /\ UNCHANGED <<apiKey, store, file, loaded, lastIngest, writeFailed, restarts>>

\* (variant: the history is saved before the turn is added to it)
RespondOk_SavesFirst(question, answer, w) ==
    /\ pc = "loop"
    /\ LET st == get_session_history(store, file, session_id) IN
         /\ Len(st[session_id]) + 2 <= MaxMsgs
         /\ store' = [st EXCEPT ![session_id] = AddTurn(@, question, answer)]
         /\ last' = Said("respond", TRUE, question, answer, dynamic_retrieval(holder, question),
                         IF write_fails(st, session_id, w) THEN "Error saving history"
                         ELSE "Gemini")
         /\ file' = save_session_history(st, file, session_id, w)
         /\ writeFailed' = (writeFailed \/ write_fails(st, session_id, w))
    /\ loaded' = IF session_id \in DOMAIN store THEN loaded ELSE file
    /\ UNCHANGED <<pc, apiKey, holder, new_retriever, lastLoad, lastIngest, restarts>>

\* Lines 89-98: the chain succeeds, then the history is saved.  The save is
\* inside the try: an exception leaving it would be printed as a chat error.
RespondOk(question, answer, w) ==
    /\ pc = "loop"
    /\ LET st == get_session_history(store, file, session_id) IN
         /\ Len(st[session_id]) + 2 <= MaxMsgs
         /\ store' = [st EXCEPT ![session_id] = AddTurn(@, question, answer)]
         /\ last' = Said("respond", TRUE, question, answer, dynamic_retrieval(holder, question),
                         IF save_raises(store', session_id, w)
                         THEN "An error occurred during chat"
                         ELSE IF write_fails(store', session_id, w) THEN "Error saving history"
                         ELSE "Gemini")
         /\ file' = save_session_history(store', file, session_id, w)
         /\ writeFailed' = (writeFailed \/ write_fails(store', session_id, w))
    /\ loaded' = IF session_id \in DOMAIN store THEN loaded ELSE file
    /\ UNCHANGED <<pc, apiKey, holder, new_retriever, lastLoad, lastIngest, restarts>>

\* (variant: the question is added to the history before the chain runs)
RespondFail_KeepsQuestion(question, stage) ==
    /\ pc = "loop"
    /\ stage = "retrieval" => holder.kind = "Grounded"
    /\ LET st == get_session_history(store, file, session_id) IN
         /\ Len(st[session_id]) + 1 <= MaxMsgs
         /\ store' = [st EXCEPT ![session_id] = Append(@, HumanMessage(question))]
    /\ last' = Said("respond", FALSE, question, None,
                    IF stage = "retrieval" THEN NoContext
                    ELSE dynamic_retrieval(holder, question),
                    "An error occurred during chat")
    /\ loaded' = IF session_id \in DOMAIN store THEN loaded ELSE file
    /\ UNCHANGED <<pc, apiKey, file, holder, new_retriever, lastLoad, lastIngest, writeFailed,
                   restarts>>

\* (variant: the history is saved after a failed turn too)
RespondFail_Saves(question, stage) ==
    /\ pc = "loop"
    /\ stage = "retrieval" => holder.kind = "Grounded"
    /\ store' = get_session_history(store, file, session_id)
    /\ file' = save_session_history(store', file, session_id, "ok")
    /\ last' = Said("respond", FALSE, question, None,
                    IF stage = "retrieval" THEN NoContext
                    ELSE dynamic_retrieval(holder, question),
                    "An error occurred during chat")
    /\ loaded' = IF session_id \in DOMAIN store THEN loaded ELSE file
    /\ UNCHANGED <<pc, apiKey, holder, new_retriever, lastLoad, lastIngest, writeFailed,
                   restarts>>

\* Lines 89-104: retrieval or the model call raises; the history object was
\* fetched when the call started, nothing is added to it and nothing is saved.
RespondFail(question, stage) ==
    /\ pc = "loop"
    /\ stage = "retrieval" => holder.kind = "Grounded"
    /\ store' = get_session_history(store, file, session_id)
    /\ last' = Said("respond", FALSE, question, None,
                    IF stage = "retrieval" THEN NoContext
                    ELSE dynamic_retrieval(holder, question),
                    "An error occurred during chat")
    /\ loaded' = IF session_id \in DOMAIN store THEN loaded ELSE file
    /\ UNCHANGED <<pc, apiKey, file, holder, new_retriever, lastLoad, lastIngest, writeFailed,
                   restarts>>

\* A later run of the program: the module state is new, the file stays.
Restart ==
    /\ pc = "done"
    /\ restarts < MaxRestarts
    /\ restarts' = restarts + 1
    /\ pc' = "start"
    /\ apiKey' \in BOOLEAN
    /\ store' = EmptyStore
    /\ holder' = NoHolder
    /\ new_retriever' = NoRetriever
    /\ loaded' = NotLoaded
    /\ lastLoad' = "none"
    /\ lastIngest' = "none"
    /\ last' = NoCommand
    /\ writeFailed' = FALSE
    /\ UNCHANGED file

Next ==
    \/ StartupFatal
    \/ Startup
    \/ \E word \in QuitWords, w \in WriteOutcomes : Quit(word, w)
    \/ \E path \in Paths : LoadNotFound(path)
    \/ \E path \in Paths, env \in IngestEnvs : LoadIngest(path, env)
    \/ LoadInstall
    \/ \E question \in Questions, answer \in Answers, w \in WriteOutcomes :
           RespondOk(question, answer, w)
    \/ \E question \in Questions, stage \in {"retrieval", "llm"} : RespondFail(question, stage)
    \/ Restart

Spec == Init /\ [][Next]_vars

\* ------------------------------------------------------------- properties
\* What history(session_id) returns in the current state.
Transcript == get_session_history(store, file, session_id)[session_id]

\* A step of the loop that handles a question.
RespondStep == pc = "loop" /\ pc' = "loop" /\ last'.cmd = "respond"

\* A step of the loop that handles quit, exit or end of input.
QuitStep == pc = "loop" /\ pc' = "done" /\ last'.cmd = "quit"

\* Number of human messages of a transcript that ask q.
Occurrences(t, q) ==
    Cardinality({i \in 1..Len(t) : t[i].cls = "HumanMessage" /\ t[i].content = q})

\* The file is not JSON, not an array, or an element lacks type or content.
MalformedFile(f) ==
    \/ f.kind \in {"notjson", "object"}
    \/ /\ f.kind = "array"
       /\ \E i \in 1..Len(f.entries) :
              f.entries[i].type = Missing \/ f.entries[i].content = Missing

\* The file is an array of {type: human|ai, content: string}.
WellFormedFile(f) ==
    /\ f.kind = "array"
    /\ \A i \in 1..Len(f.entries) :
           f.entries[i].type \in {"human", "ai"} /\ f.entries[i].content # Missing

\* The parsed content of a file, whatever its layout.
LogicalContent(f) == [kind |-> f.kind, entries |-> f.entries]

\* The latest command saved the history and the write succeeded.
SavedOk ==
    /\ session_id \in DOMAIN store
    /\ \/ last.cmd = "respond" /\ last.ok /\ last.printed = "Gemini"
       \/ last.cmd = "quit" /\ last.printed = "Exiting"

\* The process has ended by a quit whose save came after a history() that
\* read the file, with no turn added in between.
HistoryThenSave ==
    /\ pc = "done"
    /\ last.cmd = "quit"
    /\ session_id \in DOMAIN store
    /\ store[session_id] = ReadHistoryFile(loaded)

\* C1: a successful respond(session_id, q) leaves the session's transcript
\* equal to what history(session_id) returned before the call, followed by
\* the human message q and then the ai message holding the returned answer.
C1_SuccessfulRespondAppendsTwo ==
    [][(RespondStep /\ last'.ok) =>
          store'[session_id] =
              Transcript \o <<[cls |-> "HumanMessage", content |-> last'.q],
                              [cls |-> "AIMessage", content |-> last'.answer]>>]_vars

C1_Witness ==
    /\ last.cmd = "respond" /\ last.ok
    /\ session_id \in DOMAIN store
    /\ Len(store[session_id]) = 4
    /\ store[session_id][3].content = "q2"

\* C2: a failed respond leaves the transcript history(session_id) returns
\* as it was, so each question is in the transcript once more for every
\* successful turn that asked it and not for the failed ones.
C2_FailedRespondKeepsTranscript ==
    [][RespondStep =>
          /\ ~last'.ok => Transcript' = Transcript
          /\ Occurrences(Transcript', last'.q) =
                 Occurrences(Transcript, last'.q) + (IF last'.ok THEN 1 ELSE 0)]_vars

C2_Witness ==
    /\ last.cmd = "respond" /\ ~last.ok
    /\ session_id \in DOMAIN store
    /\ Len(store[session_id]) >= 2
    /\ Occurrences(store[session_id], last.q) = 1

\* C3: when the durable file is malformed (not JSON, not an array, or an
\* array with an element lacking type or content), the first history() call
\* returns an empty transcript; no message of the part before the malformed
\* element is kept.  (Stated on the failed turns, where the store entry is
\* exactly what the call returned.)
C3_MalformedFileLoadsEmpty ==
    [][(RespondStep /\ ~last'.ok /\ session_id \notin DOMAIN store /\ MalformedFile(file)) =>
          store'[session_id] = <<>>]_vars

\* C4: after a save that succeeded, history(session_id) on an empty store
\* returns the saved transcript: same messages, same order, same class and
\* content.
C4_SaveThenHistoryRoundTrip ==
    SavedOk => get_session_history(EmptyStore, file, session_id)[session_id] = store[session_id]

C4_Witness ==
    /\ SavedOk
    /\ last.cmd = "quit"
    /\ Len(store[session_id]) >= 3
    /\ \E i \in 1..Len(store[session_id]) : store[session_id][i].cls = "AIMessage"

\* C5 as stated: for any existing file, history() on a store miss followed by
\* save() with no turn in between leaves the file's parsed content as it was.
C5_HistoryThenSaveKeepsAnyFile ==
    (HistoryThenSave /\ loaded.kind # "absent") =>
        LogicalContent(file) = LogicalContent(loaded)

\* C5 as amended: the same for a well-formed file (an array of human/ai
\* elements with content) when the write of the save succeeds.
C5_HistoryThenSaveKeepsWellFormedFile ==
    (HistoryThenSave /\ WellFormedFile(loaded) /\ last.printed = "Exiting") =>
        LogicalContent(file) = LogicalContent(loaded)

C5_Witness ==
    /\ HistoryThenSave /\ WellFormedFile(loaded) /\ last.printed = "Exiting"
    /\ Len(loaded.entries) = 2
    /\ loaded.fmt = "other" /\ file.fmt = "indent4"

\* C6 as stated: a turn before any successful /load, or whose latest /load
\* command failed, assembles the empty context string.
C6_NoContextUnlessLatestLoadSucceeded ==
    (last.cmd = "respond" /\ last.context # NoContext /\ lastLoad # "ok") =>
        last.context = <<>>

\* C6 as amended: a turn before any successful /load, or whose latest /load
\* that reached load_and_process_document (its file exists) failed there,
\* assembles the empty context string.
C6_NoContextUnlessLatestIngestSucceeded ==
    (last.cmd = "respond" /\ last.context # NoContext /\ lastIngest # "ok") =>
        last.context = <<>>

C6_Witness ==
    /\ last.cmd = "respond" /\ last.context = <<>>
    /\ lastIngest = "failed" /\ lastLoad = "notfound"

\* history() on a store miss with no file returns the empty transcript.
NoFileGivesEmptyHistory ==
    (RespondStep /\ session_id \notin DOMAIN store /\ file.kind = "absent") =>
        store'[session_id] =
            IF last'.ok
            THEN <<[cls |-> "HumanMessage", content |-> last'.q],
                   [cls |-> "AIMessage", content |-> last'.answer]>>
            ELSE <<>>

\* The save of a quit that follows such a history() with no turn in between.
SaveOfEmptyHistory ==
    /\ QuitStep
    /\ session_id \in DOMAIN store
    /\ loaded.kind = "absent"
    /\ store[session_id] = <<>>

\* C7 as stated: with no durable file history() returns the empty transcript
\* and a save right after it creates the file with parsed content [].
C7_NoFileThenSaveCreatesEmptyArray ==
    [][/\ NoFileGivesEmptyHistory
       /\ SaveOfEmptyHistory => (file'.kind = "array" /\ file'.entries = <<>>)]_vars

\* C7 as amended: ... and a save right after it whose write succeeds creates
\* the file with parsed content [].
C7_NoFileThenSuccessfulSaveCreatesEmptyArray ==
    [][/\ NoFileGivesEmptyHistory
       /\ (SaveOfEmptyHistory /\ last'.printed = "Exiting") =>
              (file.kind = "absent" /\ file'.kind = "array" /\ file'.entries = <<>>)]_vars

C7_Witness ==
    /\ pc = "done" /\ last.cmd = "quit" /\ last.printed = "Exiting"
    /\ loaded.kind = "absent"
    /\ session_id \in DOMAIN store /\ store[session_id] = <<>>
    /\ file = ArrayFile(<<>>, "indent4")

\* C8: while history() has not been called for the session, no step writes
\* the file: the save of a quit leaves file and store as they are, and only
\* a respond turn puts the session into the store.
C8_SaveWithoutHistoryIsNoOp ==
    [][/\ session_id \notin DOMAIN store' => file' = file
       /\ (QuitStep /\ session_id \notin DOMAIN store) => (file' = file /\ store' = store)
       /\ (session_id \notin DOMAIN store /\ session_id \in DOMAIN store') => RespondStep]_vars

C8_Witness ==
    /\ pc = "done" /\ last.cmd = "quit"
    /\ session_id \notin DOMAIN store
    /\ lastLoad = "ok"
    /\ file.kind = "array" /\ file.fmt = "other"

\* C9 as stated: a failed respond changes nothing: the session ids held by
\* the store, every transcript, the retriever slot and the durable file.
C9_FailedRespondMutatesNothing ==
    [][(RespondStep /\ ~last'.ok) =>
          /\ DOMAIN store' = DOMAIN store
          /\ Transcript' = Transcript
          /\ holder' = holder
          /\ file' = file]_vars

\* C9 as amended: a failed respond leaves every transcript history() returns,
\* the retriever slot and the durable file as they were; the store holds the
\* session afterwards, loaded from the file if it was not held before.
C9_FailedRespondOnlyCachesHistory ==
    [][(RespondStep /\ ~last'.ok) =>
          /\ DOMAIN store' = DOMAIN store \cup {session_id}
          /\ Transcript' = Transcript
          /\ store'[session_id] = Transcript
          /\ holder' = holder
          /\ new_retriever' = new_retriever
          /\ file' = file]_vars

C9_Witness ==
    /\ last.cmd = "respond" /\ ~last.ok
    /\ holder.kind = "Grounded"
    /\ file.kind = "array" /\ file.fmt = "other"
    /\ store[session_id] # <<>>

\* C10: a failing load_and_process_document returns None instead of raising
\* and leaves the retriever slot, the store and the session file as they
\* were; for an unsupported extension it returns before a loader is chosen
\* or the document is read.
C10_FailedIngestReturnsAndMutatesNothing ==
    [][(pc = "loop" /\ last'.cmd = "ingest" /\ ~last'.ok) =>
          /\ pc' = "ingested"
          /\ new_retriever' = NoRetriever
          /\ holder' = holder /\ store' = store /\ file' = file
          /\ last'.path.ext \notin SupportedExts => last'.steps = <<>>]_vars

C10_Witness ==
    /\ pc = "ingested" /\ last.cmd = "ingest" /\ ~last.ok
    /\ last.path.ext = ".xlsx"
    /\ holder.kind = "Grounded"
    /\ session_id \in DOMAIN store

\* The new turn of a successful respond step.
NewTurn ==
    <<[cls |-> "HumanMessage", content |-> last'.q],
      [cls |-> "AIMessage", content |-> last'.answer]>>

\* C11: a failed write in save is reported and goes no further: the turn
\* ends as a successful one with the save's error printed, the loop goes on,
\* the in-memory transcript keeps the turn, and later turns extend the
\* in-memory transcript whatever the file holds.
C11_WriteFailureIsReportedNotPropagated ==
    [][/\ (RespondStep /\ last'.ok /\ last'.printed # "Gemini") =>
              /\ last'.printed = "Error saving history"
              /\ writeFailed'
              /\ store'[session_id] = Transcript \o NewTurn
       /\ (QuitStep /\ last'.printed # "Exiting") =>
              (last'.printed = "Error saving history" /\ store' = store)
       /\ (RespondStep /\ writeFailed /\ session_id \in DOMAIN store) =>
              store'[session_id] = store[session_id] \o (IF last'.ok THEN NewTurn ELSE <<>>)]_vars

C11_Witness ==
    /\ pc = "loop" /\ last.cmd = "respond" /\ last.ok
    /\ last.printed = "Error saving history"
    /\ Len(store[session_id]) = 4
    /\ file = TruncatedFile

\* C12: the loop is left only by quit or exit (in any case) or end of input,
\* and that step calls save for the session: when its write succeeds the
\* file holds the whole in-memory transcript.
C12_LoopEndsOnlyByQuitWithSave ==
    [][(pc \in {"loop", "ingested"} /\ pc' = "done") =>
          /\ last'.cmd = "quit"
          /\ last'.q = "eof" \/ lower(last'.q) \in {"quit", "exit"}
          /\ last'.printed \in {"Exiting", "Error saving history"}
          /\ store' = store
          /\ (session_id \in DOMAIN store /\ last'.printed = "Exiting") =>
                 file' = ArrayFile(serializable_history(store[session_id]), "indent4")]_vars

C12_Witness ==
    /\ pc = "done" /\ last.cmd = "quit" /\ last.q = "EXIT" /\ last.printed = "Exiting"
    /\ writeFailed
    /\ session_id \in DOMAIN store
    /\ Len(store[session_id]) = 2
    /\ file.kind = "array" /\ Len(file.entries) = 2

\* C13 as stated: every /load command calls load_and_process_document.
C13_EveryLoadCallsIngest ==
    [][(pc = "loop" /\ last'.cmd \in {"load", "ingest"}) => last'.cmd = "ingest"]_vars

\* C13 as amended: a /load command calls load_and_process_document exactly
\* when its path exists; the next step then installs the result, the
\* returned retriever if the call succeeded and a DummyRetriever if not,
\* before another command is read.
C13_ExistingLoadCallsIngestThenInstalls ==
    [][/\ (pc = "loop" /\ last'.cmd \in {"load", "ingest"}) =>
              /\ last'.cmd = "ingest" <=> last'.path.exists
              /\ last'.cmd = "ingest" =>
                     /\ pc' = "ingested"
                     /\ holder' = holder
                     /\ last'.ok <=> new_retriever'.kind = "Grounded"
                     /\ last'.ok => new_retriever'.doc = last'.path.stem
       /\ pc = "ingested" =>
              /\ pc' = "loop" /\ last'.cmd = "load"
              /\ last.ok => holder' = new_retriever
              /\ ~last.ok => (holder' = DummyRetriever /\ holder' # new_retriever)]_vars

C13_Witness ==
    /\ pc = "loop" /\ last.cmd = "load" /\ last.ok
    /\ holder = [kind |-> "Grounded", doc |-> "b"]
    /\ session_id \in DOMAIN store

\* C14: after the key check no failure ends the process: main leaves the
\* loop only by a quit, and ends at startup only when the key is missing,
\* with holder, store and file untouched.
C14_OnlyMissingKeyIsFatal ==
    [][/\ pc = "start" =>
              IF apiKey THEN pc' = "loop"
              ELSE /\ pc' = "done"
                   /\ holder' = holder /\ holder = NoHolder
                   /\ store' = store /\ store = EmptyStore
                   /\ file' = file
       /\ (pc \in {"loop", "ingested"} /\ last'.cmd # "quit") => pc' \in {"loop", "ingested"}]_vars

C14_Witness ==
    /\ pc = "loop"
    /\ last.cmd = "respond" /\ ~last.ok
    /\ lastIngest = "failed"
    /\ writeFailed
    /\ MalformedFile(loaded)

\* The failure condition of a call, and the one a printed diagnosis names.
FailureCondition(path, env) ==
    IF path.ext \notin SupportedExts THEN "UnsupportedFormat"
    ELSE CASE env = "import_error" -> "ParserUnavailable"
           [] env = "quota_exceeded" -> "EmbeddingQuotaExceeded"
           [] env = "other_error" -> "EmbeddingOrParseError"
           [] OTHER -> "none"

DiagnosisOf(printed) ==
    CASE printed = "unsupported format" -> "UnsupportedFormat"
      [] printed \in {"install pypdf", "install unstructured", "import error"} ->
             "ParserUnavailable"
      [] printed = "quota" -> "EmbeddingQuotaExceeded"
      [] printed = "error" -> "EmbeddingOrParseError"
      [] OTHER -> "none"

FailingCalls ==
    {c \in [path : {p \in Paths : p.exists}, env : IngestEnvs] :
        FailureCondition(c.path, c.env) # "none"}

AfterFailedIngest == pc = "ingested" /\ last.cmd = "ingest" /\ ~last.ok

\* C15 as stated: the value a failed call returns tells its failure
\* condition: a call that fails for another condition returns another value.
C15_ReturnedValueTellsCondition ==
    AfterFailedIngest =>
        \A c \in FailingCalls :
            FailureCondition(c.path, c.env) # DiagnosisOf(last.printed) =>
                load_and_process_document(c.path, c.env).value # new_retriever

\* C15 as amended: every failed call returns the same None; the four
\* conditions differ only in the diagnosis the call prints.
C15_PrintedDiagnosisTellsCondition ==
    AfterFailedIngest =>
        /\ new_retriever = NoRetriever
        /\ DiagnosisOf(last.printed) # "none"
        /\ \A c \in FailingCalls :
               LET r == load_and_process_document(c.path, c.env) IN
               /\ r.value = new_retriever
               /\ DiagnosisOf(r.printed) = FailureCondition(c.path, c.env)
               /\ FailureCondition(c.path, c.env) # DiagnosisOf(last.printed) =>
                      r.printed # last.printed

C15_Witness ==
    /\ AfterFailedIngest
    /\ last.printed = "quota"
    /\ last.path.ext = ".pdf"

\* Documents an ingestion can succeed on.
LoadableDocs == {p.stem : p \in {x \in Paths : x.exists /\ x.ext \in SupportedExts}}

SlotHoldsRetriever ==
    pc \in {"loop", "ingested"} =>
        /\ holder.kind \in {"Dummy", "Grounded"}
        /\ holder.kind = "Dummy" => holder = DummyRetriever
        /\ holder.kind = "Grounded" => holder.doc \in LoadableDocs
        /\ (pc = "loop" /\ holder.kind = "Grounded") => lastIngest = "ok"

\* C16: while the loop runs the holder holds a DummyRetriever or the
\* retriever a successful ingestion returned, never None; it is the
\* DummyRetriever when the loop starts, and it changes only as a whole, in
\* the install step of a /load.
C16_SlotAlwaysHoldsOneRetriever ==
    [][/\ SlotHoldsRetriever /\ SlotHoldsRetriever'
       /\ (pc = "start" /\ pc' = "loop") => holder' = DummyRetriever
       /\ (holder' # holder /\ pc \in {"loop", "ingested"}) =>
              /\ pc = "ingested" /\ last'.cmd = "load"
              /\ holder' = (IF last.ok THEN new_retriever ELSE DummyRetriever)]_vars

C16_Witness ==
    /\ pc = "loop" /\ last.cmd = "load" /\ ~last.ok /\ last.printed = "RAG MODE FAILED"
    /\ holder = DummyRetriever
    /\ session_id \in DOMAIN store /\ Len(store[session_id]) = 4

\* C17: the context of every turn comes from the retriever the holder holds
\* at that turn: chunks of that document if it is an index, nothing if it is
\* the DummyRetriever.
C17_ContextComesFromCurrentRetriever ==
    (pc = "loop" /\ last.cmd = "respond" /\ last.context # NoContext) =>
        IF holder.kind = "Grounded"
        THEN /\ last.context # <<>>
             /\ \A i \in 1..Len(last.context) :
                    \/ last.context[i] = Separator
                    \/ \E j \in 1..Len(ChunkTexts[holder.doc]) :
                           last.context[i] = ChunkTexts[holder.doc][j]
        ELSE last.context = <<>>

C17_Witness ==
    /\ pc = "loop" /\ last.cmd = "respond" /\ last.ok
    /\ holder = [kind |-> "Grounded", doc |-> "b"]
    /\ last.context = <<"b#2", Separator, "b#1">>
    /\ Len(store[session_id]) = 4

\* C18: a durable file that is absent or a well-formed array stays so: a
\* step leaves it as it is or replaces it by the whole current transcript,
\* also when the write of a save fails.
C18_FileStaysWellFormed ==
    [][(file.kind = "absent" \/ WellFormedFile(file)) =>
          /\ file'.kind = "absent" \/ WellFormedFile(file')
          /\ \/ file' = file
             \/ /\ session_id \in DOMAIN store'
                /\ file' = ArrayFile(serializable_history(store'[session_id]), "indent4")]_vars

\* C19: a /load of a path that does not exist does not call
\* load_and_process_document and leaves holder, store and file as they are.
C19_MissingPathChangesNothing ==
    [][(pc = "loop" /\ last'.cmd \in {"load", "ingest"} /\ ~last'.path.exists) =>
          /\ last'.cmd = "load" /\ pc' = "loop"
          /\ holder' = holder
          /\ new_retriever' = new_retriever /\ lastIngest' = lastIngest
          /\ store' = store
          /\ file' = file]_vars

C19_Witness ==
    /\ pc = "loop" /\ last.cmd = "load" /\ last.printed = "File not found"
    /\ holder.kind = "Grounded"
    /\ session_id \in DOMAIN store /\ store[session_id] # <<>>
    /\ file.kind = "array"

\* C20: while the loop waits for input, if the file was absent or well-formed
\* when the session was first loaded and no write has failed, the file's
\* parsed content (nothing, if there is no file) is the in-memory transcript.
C20_FileMatchesTranscript ==
    (/\ pc = "loop"
     /\ session_id \in DOMAIN store
     /\ loaded.kind = "absent" \/ WellFormedFile(loaded)
     /\ ~writeFailed) =>
        /\ file.kind \in {"absent", "array"}
        /\ file.entries = serializable_history(store[session_id])

C20_Witness ==
    /\ pc = "loop" /\ ~writeFailed
    /\ WellFormedFile(loaded) /\ Len(loaded.entries) = 1
    /\ session_id \in DOMAIN store /\ Len(store[session_id]) = 3
    /\ file.fmt = "indent4" /\ Len(file.entries) = 3

====
